---- MODULE Spec2Model ----
(***************************************************************************)
(* Model of fashion_webapp/app.py: a Flask application that serves a       *)
(* module-level list of posts.  The state is the list and, per server      *)
(* thread, the request that thread is serving: its route, its parameters,  *)
(* how far its scan of the list has come and the response it produced.     *)
(* The three lookups walk the list one element per step, so that requests  *)
(* served by different threads interleave element by element.              *)
(*                                                                         *)
(* Strings that the code only hands on or compares with names of the same  *)
(* kind (categories, templates, titles of posts) are TLA+ strings.  Slugs, *)
(* form titles and tags are sequences of one-character strings: a slug is  *)
(* derived from a title character by character, and a tag is matched by    *)
(* equality of the whole string.                                           *)
(***************************************************************************)
EXTENDS Integers, Sequences, FiniteSets

\* debug: whether the application runs in debug mode (app.run(debug=True) when
\* started as a script, off under a WSGI server); fixed for the process
VARIABLES posts, threads, debug

vars == <<posts, threads, debug>>

----------------------------------------------------------------------------
(* Bounds of the model. *)

\* number of server threads serving requests at the same time
NumThreads == 2

\* longest store drawn when the lookups are checked over arbitrary stores
MaxPosts == 2

Threads == 1..NumThreads

----------------------------------------------------------------------------
(* The data of app.py. *)

SustainableSlug ==
    <<"s","u","s","t","a","i","n","a","b","l","e","-","f","a","s","h","i","o","n">>

TrenchSlug ==
    <<"t","r","e","n","c","h","-","c","o","a","t","-","s","t","y","l","i","n","g">>

\* the tag names of app.py, as sequences of characters
sustainable == <<"s","u","s","t","a","i","n","a","b","l","e">>

eco_friendly == <<"e","c","o","-","f","r","i","e","n","d","l","y">>

fashion == <<"f","a","s","h","i","o","n">>

classic == <<"c","l","a","s","s","i","c">>

outerwear == <<"o","u","t","e","r","w","e","a","r">>

styling == <<"s","t","y","l","i","n","g">>

\* the module-level list `posts`
PostsLiteral ==
    << [id |-> 1,
        title |-> "The Rise of Sustainable Fashion",
        slug |-> SustainableSlug,
        content |-> "Explore the growing movement towards eco-conscious clothing...",
        image |-> "static/img/sustainable.jpg",
        category |-> "Trends",
        tags |-> <<sustainable, eco_friendly, fashion>>,
        date |-> "2025-05-09"],
       [id |-> 2,
        title |-> "Styling a Classic Trench Coat",
        slug |-> TrenchSlug,
        content |-> "Versatile ways to wear a timeless trench coat...",
        image |-> "static/img/trench.jpg",
        category |-> "Style Tips",
        tags |-> <<classic, outerwear, styling>>,
        date |-> "2025-05-08"] >>

categories == <<"Trends", "Style Tips", "Designer Spotlights">>

tags == <<sustainable, eco_friendly, fashion, classic, outerwear, styling>>

----------------------------------------------------------------------------
(* str.lower() and str.replace(' ', '-') of admin_new_post. *)

UpperLetters ==
    <<"A","B","C","D","E","F","G","H","I","J","K","L","M",
      "N","O","P","Q","R","S","T","U","V","W","X","Y","Z">>

LowerLetters ==
    <<"a","b","c","d","e","f","g","h","i","j","k","l","m",
      "n","o","p","q","r","s","t","u","v","w","x","y","z">>

LowerChar(c) ==
    IF \E k \in 1..Len(UpperLetters) : UpperLetters[k] = c
    THEN LowerLetters[CHOOSE k \in 1..Len(UpperLetters) : UpperLetters[k] = c]
    ELSE c

lower(s) == [k \in 1..Len(s) |-> LowerChar(s[k])]

replace_space(s) == [k \in 1..Len(s) |-> IF s[k] = " " THEN "-" ELSE s[k]]

\* slug = title.lower().replace(' ', '-')
derive_slug(title) == replace_space(lower(title))

----------------------------------------------------------------------------
(* Responses.  post is the optional post handed to post.html (a sequence   *)
(* of length at most one), posts the list handed to a listing template.    *)

Response(kind, status, template, location, post_, posts_) ==
    [kind |-> kind, status |-> status, template |-> template,
     location |-> location, post |-> post_, posts |-> posts_]

NoResponse == Response("none", 0, "", "", <<>>, <<>>)

render_template(template, status, post_, posts_) ==
    Response("render", status, template, "", post_, posts_)

\* url_for('admin_dashboard') is the rule of admin_dashboard, '/admin'
redirect(location) == Response("redirect", 302, "", location, <<>>, <<>>)

\* request.form[key] on a form without key raises BadRequestKeyError: Flask
\* answers 400, or, when the application runs in debug mode (app.run(debug=True)),
\* lets the exception through as an unhandled error (500)
bad_request_key(dbg) ==
    IF dbg THEN Response("exception", 500, "", "", <<>>, <<>>)
             ELSE Response("bad_request", 400, "", "", <<>>, <<>>)

----------------------------------------------------------------------------
(* A thread.  pc is "idle" (between requests), "scan" (inside the          *)
(* comprehension of a lookup, i elements consumed, acc collected so far)   *)
(* or "done" (response produced).                                          *)

NoForm == [title |-> <<>>, content |-> <<>>]

IdleThread ==
    [pc |-> "idle", route |-> "", method |-> "", slug |-> <<>>, name |-> "",
     form |-> NoForm, i |-> 0, acc |-> <<>>, resp |-> NoResponse]

StartScan(route, slug, name) ==
    [IdleThread EXCEPT !.pc = "scan", !.route = route, !.method = "GET",
                       !.slug = slug, !.name = name]

Served(route, method, form, resp) ==
    [IdleThread EXCEPT !.pc = "done", !.route = route, !.method = method,
                       !.form = form, !.resp = resp]

Finish(t, resp) == [t EXCEPT !.pc = "done", !.resp = resp]

----------------------------------------------------------------------------
(* post(slug) *)

\* the 404 page rendered without the status
post_response_ok(found) ==
    IF found # <<>>
    THEN render_template("post.html", 200, found, <<>>)
    ELSE render_template("404.html", 200, <<>>, <<>>)

\* if post: render post.html, else render 404.html with status 404
post_response(found) ==
    IF found # <<>>
    THEN render_template("post.html", 200, found, <<>>)
    ELSE render_template("404.html", 404, <<>>, <<>>)

\* a scan that keeps going after a match and answers with the last one
post_step_last(t, store) ==
    IF t.i < Len(store)
    THEN IF store[t.i + 1].slug = t.slug
         THEN [t EXCEPT !.i = t.i + 1, !.acc = <<store[t.i + 1]>>]
         ELSE [t EXCEPT !.i = t.i + 1]
    ELSE Finish(t, post_response(t.acc))

\* one step of next((p for p in posts if p['slug'] == slug), None): the
\* generator stops at the first match, or at the end of the list with None
post_step(t, store) ==
    IF t.i < Len(store)
    THEN IF store[t.i + 1].slug = t.slug
         THEN Finish([t EXCEPT !.i = t.i + 1, !.acc = <<store[t.i + 1]>>],
                     post_response(<<store[t.i + 1]>>))
         ELSE [t EXCEPT !.i = t.i + 1]
    ELSE Finish(t, post_response(<<>>))

----------------------------------------------------------------------------
(* category(name) *)

\* an empty listing answered as not found
category_response_404(acc) ==
    IF acc = <<>>
    THEN render_template("404.html", 404, <<>>, <<>>)
    ELSE render_template("category.html", 200, <<>>, acc)

category_response(acc) == render_template("category.html", 200, <<>>, acc)

\* a filter that puts each match in front of the ones found before
category_step_prepend(t, store) ==
    IF t.i < Len(store)
    THEN IF store[t.i + 1].category = t.name
         THEN [t EXCEPT !.i = t.i + 1, !.acc = <<store[t.i + 1]>> \o t.acc]
         ELSE [t EXCEPT !.i = t.i + 1]
    ELSE Finish(t, category_response(t.acc))

\* one step of [p for p in posts if p['category'] == name]
category_step(t, store) ==
    IF t.i < Len(store)
    THEN IF store[t.i + 1].category = t.name
         THEN [t EXCEPT !.i = t.i + 1, !.acc = Append(t.acc, store[t.i + 1])]
         ELSE [t EXCEPT !.i = t.i + 1]
    ELSE Finish(t, category_response(t.acc))

----------------------------------------------------------------------------
(* tag(name) *)

tag_response(acc) == render_template("tag.html", 200, <<>>, acc)

\* membership that ignores case
tag_in_nocase(name, taglist) ==
    \E k \in 1..Len(taglist) : lower(taglist[k]) = lower(name)

\* name in p['tags']
tag_in(name, taglist) == \E k \in 1..Len(taglist) : taglist[k] = name

\* one step of [p for p in posts if name in p['tags']]
tag_step(t, store) ==
    IF t.i < Len(store)
    THEN IF tag_in(t.name, store[t.i + 1].tags)
         THEN [t EXCEPT !.i = t.i + 1, !.acc = Append(t.acc, store[t.i + 1])]
         ELSE [t EXCEPT !.i = t.i + 1]
    ELSE Finish(t, tag_response(t.acc))

----------------------------------------------------------------------------
(* admin_new_post() *)

\* the post a handler that saved would build
NewPost(store, title, slug, content) ==
    [id |-> Len(store) + 1, title |-> "posted", slug |-> slug, content |-> content,
     image |-> "", category |-> "", tags |-> <<>>, date |-> ""]

\* a handler that appends the new post
admin_new_post_store_append(store, title, slug, content) ==
    Append(store, NewPost(store, title, slug, content))

\* a handler that puts the new post first
admin_new_post_store_insert(store, title, slug, content) ==
    <<NewPost(store, title, slug, content)>> \o store

\* a handler that replaces the post of the same slug, or appends
admin_new_post_store_upsert(store, title, slug, content) ==
    IF \E k \in 1..Len(store) : store[k].slug = slug
    THEN [k \in 1..Len(store) |->
            IF store[k].slug = slug THEN NewPost(store, title, slug, content)
                                    ELSE store[k]]
    ELSE Append(store, NewPost(store, title, slug, content))

\* the list after a POST: the handler derives the slug, prints the title and
\* saves nothing
admin_new_post_store(store, title, slug, content) == store

\* a POST answered with the form again
admin_new_post_posted_form == render_template("admin/new_post.html", 200, <<>>, <<>>)

\* the response of a POST whose form has both fields
admin_new_post_posted == redirect("/admin")

\* the response of a GET
admin_new_post_form == render_template("admin/new_post.html", 200, <<>>, <<>>)

----------------------------------------------------------------------------
(* Requests. *)

\* slugs requested on /post/<slug>: the two of the list, and one of no post
\* that is the slug of a title a form may carry
NewLookTitle == <<"N","e","w"," ","L","o","o","k">>

TrenchTitle ==
    <<"T","r","e","n","c","h"," ","C","o","a","t"," ","S","t","y","l","i","n","g">>

PathSlugs == {SustainableSlug, TrenchSlug, derive_slug(NewLookTitle)}

\* names requested on /category/<name>
PathCategories == {"Trends", "Designer Spotlights", "Vintage"}

\* names requested on /tag/<name>
PathTags == {classic, <<"c","l","a","s","s">>, <<"F","a","s","h","i","o","n">>}

\* forms posted to /admin/new_post: each field present or absent
Titles == {TrenchTitle, NewLookTitle, <<>>}

Forms ==
    [title : {<<>>} \cup {<<x>> : x \in Titles},
     content : {<<>>, <<"text">>}]

----------------------------------------------------------------------------
(* Actions: one per view function; a lookup is started and then stepped.   *)

Set(w, t) == threads' = [threads EXCEPT ![w] = t]

Idle(w) == threads[w].pc = "idle"

index(w) ==
    /\ Idle(w)
    /\ Set(w, Served("index", "GET", NoForm,
                     render_template("index.html", 200, <<>>, posts)))
    /\ UNCHANGED <<posts, debug>>

post_start(w, slug) ==
    /\ Idle(w)
    /\ Set(w, StartScan("post", slug, ""))
    /\ UNCHANGED <<posts, debug>>

post(w) ==
    /\ threads[w].pc = "scan"
    /\ threads[w].route = "post"
    /\ Set(w, post_step(threads[w], posts))
    /\ UNCHANGED <<posts, debug>>

category_start(w, name) ==
    /\ Idle(w)
    /\ Set(w, StartScan("category", <<>>, name))
    /\ UNCHANGED <<posts, debug>>

category(w) ==
    /\ threads[w].pc = "scan"
    /\ threads[w].route = "category"
    /\ Set(w, category_step(threads[w], posts))
    /\ UNCHANGED <<posts, debug>>

tag_start(w, name) ==
    /\ Idle(w)
    /\ Set(w, StartScan("tag", <<>>, name))
    /\ UNCHANGED <<posts, debug>>

tag(w) ==
    /\ threads[w].pc = "scan"
    /\ threads[w].route = "tag"
    /\ Set(w, tag_step(threads[w], posts))
    /\ UNCHANGED <<posts, debug>>

about(w) ==
    /\ Idle(w)
    /\ Set(w, Served("about", "GET", NoForm,
                     render_template("about.html", 200, <<>>, <<>>)))
    /\ UNCHANGED <<posts, debug>>

contact(w) ==
    /\ Idle(w)
    /\ Set(w, Served("contact", "GET", NoForm,
                     render_template("contact.html", 200, <<>>, <<>>)))
    /\ UNCHANGED <<posts, debug>>

admin_dashboard(w) ==
    /\ Idle(w)
    /\ Set(w, Served("admin_dashboard", "GET", NoForm,
                     render_template("admin/dashboard.html", 200, <<>>, <<>>)))
    /\ UNCHANGED <<posts, debug>>

admin_new_post_get(w) ==
    /\ Idle(w)
    /\ Set(w, Served("admin_new_post", "GET", NoForm, admin_new_post_form))
    /\ UNCHANGED <<posts, debug>>

\* request.form['title'] is read first, then request.form['content']; either
\* raises when the field is absent, before anything else happens
admin_new_post_post(w, form) ==
    /\ Idle(w)
    /\ IF form.title = <<>> \/ form.content = <<>>
       THEN /\ Set(w, Served("admin_new_post", "POST", form, bad_request_key(debug)))
            /\ UNCHANGED <<posts, debug>>
       ELSE /\ Set(w, Served("admin_new_post", "POST", form, admin_new_post_posted))
            /\ posts' = admin_new_post_store(posts, form.title[1],
                                             derive_slug(form.title[1]),
                                             form.content[1])
            /\ UNCHANGED debug

\* a path that matches no rule
page_not_found(w) ==
    /\ Idle(w)
    /\ Set(w, Served("", "GET", NoForm,
                     render_template("404.html", 404, <<>>, <<>>)))
    /\ UNCHANGED <<posts, debug>>

\* the response is sent and the thread takes the next request
Recycle(w) ==
    /\ threads[w].pc = "done"
    /\ Set(w, IdleThread)
    /\ UNCHANGED <<posts, debug>>

----------------------------------------------------------------------------
(* The application: the list as written in app.py, every route served. *)

Init ==
    /\ posts = PostsLiteral
    /\ threads = [w \in Threads |-> IdleThread]
    /\ debug \in BOOLEAN

Next ==
    \E w \in Threads :
        \/ index(w)
        \/ \E slug \in PathSlugs : post_start(w, slug)
        \/ post(w)
        \/ \E name \in PathCategories : category_start(w, name)
        \/ category(w)
        \/ \E name \in PathTags : tag_start(w, name)
        \/ tag(w)
        \/ about(w)
        \/ contact(w)
        \/ admin_dashboard(w)
        \/ admin_new_post_get(w)
        \/ \E form \in Forms : admin_new_post_post(w, form)
        \/ page_not_found(w)
        \/ Recycle(w)

Spec == Init /\ [][Next]_vars

----------------------------------------------------------------------------
(* The lookups over every small list: the list is drawn from the posts     *)
(* below, duplicates of slugs, categories and tags included, and one       *)
(* thread serves lookups on it.                                            *)

StoreSlugs == {<<"a">>, <<"b">>}

StoreCategories == {"Trends", "Style Tips"}

\* no tag; the tag x twice; x after a tag that contains it; x in capitals only
StoreTagLists == {<<>>, << <<"x">>, <<"x">> >>, << <<"x","y">>, <<"x">> >>, << <<"X">> >>}

\* requested tags: x, and y, which is a tag of no post but part of one
StorePathTags == {<<"x">>, <<"y">>}

\* a post of a drawn list; ids are unique, as in app.py, and number the posts
StorePost(n, slug, cat, taglist) ==
    [id |-> n, title |-> "title", slug |-> slug, content |-> "content",
     image |-> "static/img/post.jpg", category |-> cat, tags |-> taglist,
     date |-> "2025-05-09"]

Stores ==
    UNION { { [k \in 1..n |-> StorePost(k, f[k][1], f[k][2], f[k][3])] :
                f \in [1..n -> StoreSlugs \X StoreCategories \X StoreTagLists] } :
            n \in 0..MaxPosts }

InitStores ==
    /\ posts \in Stores
    /\ threads = [w \in Threads |-> IdleThread]
    /\ debug \in BOOLEAN

NextLookup ==
    \/ \E slug \in StoreSlugs : post_start(1, slug)
    \/ post(1)
    \/ \E name \in StoreCategories : category_start(1, name)
    \/ category(1)
    \/ \E name \in StorePathTags : tag_start(1, name)
    \/ tag(1)
    \/ Recycle(1)

SpecStores == InitStores /\ [][NextLookup]_vars

----------------------------------------------------------------------------
(* Properties. *)

Min(S) == CHOOSE x \in S : \A y \in S : x <= y

Range(s) == {s[k] : k \in 1..Len(s)}

SlugIndexes(store, slug) == {k \in 1..Len(store) : store[k].slug = slug}

CategoryIndexes(store, name) == {k \in 1..Len(store) : store[k].category = name}

TagIndexes(store, name) ==
    {k \in 1..Len(store) : \E m \in 1..Len(store[k].tags) : store[k].tags[m] = name}

\* r lists exactly the posts of store at the indexes idx, each once, in the
\* order of store
ListsInOrder(r, store, idx) ==
    /\ Len(r) = Cardinality(idx)
    /\ \A j \in 1..Len(r) : \E k \in idx : r[j] = store[k]
    /\ \A k \in idx : Cardinality({j \in 1..Len(r) : r[j] = store[k]}) = 1
    /\ \A j1, j2 \in 1..Len(r) :
         j1 < j2 => \E k1, k2 \in idx : k1 < k2 /\ r[j1] = store[k1] /\ r[j2] = store[k2]

DoneOn(t, route) == t.pc = "done" /\ t.route = route

HasBothFields(form) == form.title # <<>> /\ form.content # <<>>

\* C1: the lookup by slug answers with the post at the smallest index of the
\* list whose slug is the requested one, whenever some post has that slug, also
\* when several posts share it; the post it answers with has the requested slug.
C1_FirstMatchingSlug ==
    \A w \in Threads :
        LET t == threads[w]
            idx == SlugIndexes(posts, t.slug)
        IN  (DoneOn(t, "post") /\ idx # {}) =>
                /\ t.resp.kind = "render"
                /\ t.resp.template = "post.html"
                /\ t.resp.post = <<posts[Min(idx)]>>
                /\ t.resp.post[1].slug = t.slug

\* a lookup answered from a list in which two different posts share the slug
C1_Witness ==
    \E w \in Threads :
        LET t == threads[w]
            idx == SlugIndexes(posts, t.slug)
        IN  /\ DoneOn(t, "post")
            /\ Cardinality(idx) >= 2
            /\ \E k \in idx : posts[k].category # posts[Min(idx)].category
            /\ t.resp.post = <<posts[Min(idx)]>>

\* C2: the category filter answers with the posts of the list whose category
\* is the requested name and no others, each exactly once, in the order of the
\* list.
C2_CategoryFilter ==
    \A w \in Threads :
        LET t == threads[w]
        IN  DoneOn(t, "category") =>
                /\ \A j \in 1..Len(t.resp.posts) : t.resp.posts[j].category = t.name
                /\ ListsInOrder(t.resp.posts, posts, CategoryIndexes(posts, t.name))

\* a category filter answered with two posts, the earlier of the list first
C2_Witness ==
    \E w \in Threads :
        LET t == threads[w]
        IN  /\ DoneOn(t, "category")
            /\ Len(t.resp.posts) = 2
            /\ t.resp.posts[1].id < t.resp.posts[2].id
            /\ t.resp.posts[1].slug # t.resp.posts[2].slug

\* C3: the tag filter answers with exactly the posts of the list one of whose
\* tags is equal, as a whole string and with its case, to the requested tag,
\* each once however often the tag occurs in it, in the order of the list.
C3_TagFilter ==
    \A w \in Threads :
        LET t == threads[w]
        IN  DoneOn(t, "tag") =>
                /\ \A j \in 1..Len(t.resp.posts) :
                     t.name \in Range(t.resp.posts[j].tags)
                /\ ListsInOrder(t.resp.posts, posts, TagIndexes(posts, t.name))

\* a tag filter over a list with a post that carries the tag twice and a post
\* whose only tag differs from it in case: the first alone is listed
C3_Witness ==
    \E w \in Threads :
        LET t == threads[w]
        IN  /\ DoneOn(t, "tag")
            /\ \E k \in 1..Len(posts) :
                 /\ Len(posts[k].tags) = 2
                 /\ posts[k].tags[1] = t.name
                 /\ posts[k].tags[2] = t.name
            /\ \E k \in 1..Len(posts) :
                 /\ t.name \notin Range(posts[k].tags)
                 /\ lower(t.name) \in {lower(x) : x \in Range(posts[k].tags)}
            /\ Len(t.resp.posts) = 1

\* C4: a request for a slug that no post of the list carries is answered with
\* the not-found page and status 404, and with no post.
C4_AbsentSlugNotFound ==
    \A w \in Threads :
        LET t == threads[w]
        IN  (DoneOn(t, "post") /\ SlugIndexes(posts, t.slug) = {}) =>
                /\ t.resp.kind = "render"
                /\ t.resp.template = "404.html"
                /\ t.resp.status = 404
                /\ t.resp.post = <<>>

\* a request answered 404 for a slug of no post
C4_Witness ==
    \E w \in Threads :
        /\ DoneOn(threads[w], "post")
        /\ threads[w].slug = derive_slug(NewLookTitle)
        /\ SlugIndexes(posts, threads[w].slug) = {}
        /\ threads[w].resp.status = 404

\* C5: a category or tag request is always answered with a rendered listing
\* and status 200, never with not-found; when no post matches the name, also a
\* name outside the reference lists, the listing is empty.
C5_FiltersNeverNotFound ==
    \A w \in Threads :
        LET t == threads[w]
        IN  /\ DoneOn(t, "category") =>
                /\ t.resp.kind = "render"
                /\ t.resp.status = 200
                /\ t.resp.template = "category.html"
                /\ CategoryIndexes(posts, t.name) = {} => t.resp.posts = <<>>
            /\ DoneOn(t, "tag") =>
                /\ t.resp.kind = "render"
                /\ t.resp.status = 200
                /\ t.resp.template = "tag.html"
                /\ TagIndexes(posts, t.name) = {} => t.resp.posts = <<>>

\* a category outside `categories` and a tag outside `tags`, both answered
\* with an empty listing
C5_Witness ==
    \E w1, w2 \in Threads :
        /\ DoneOn(threads[w1], "category")
        /\ threads[w1].name \notin Range(categories)
        /\ threads[w1].resp.posts = <<>>
        /\ threads[w1].resp.status = 200
        /\ DoneOn(threads[w2], "tag")
        /\ threads[w2].name \notin Range(tags)
        /\ threads[w2].resp.posts = <<>>
        /\ threads[w2].resp.status = 200

\* C6: whatever requests were served, the list is the one app.py wrote: the
\* same posts in the same order with the same fields.
C6_StoreNeverChanges == posts = PostsLiteral

\* a POST to /admin/new_post with both fields was served
C6_Witness ==
    \E w \in Threads :
        /\ DoneOn(threads[w], "admin_new_post")
        /\ threads[w].method = "POST"
        /\ HasBothFields(threads[w].form)
        /\ threads[w].resp.kind = "redirect"

\* C7: every request ends in a render or a redirect, the only error being
\* the not-found page with status 404.
C7_OnlyNotFoundErrors ==
    \A w \in Threads :
        LET t == threads[w]
        IN  t.pc = "done" =>
                \/ t.resp.kind = "redirect" /\ t.resp.status = 302
                \/ t.resp.kind = "render" /\ t.resp.status = 200
                \/ t.resp.kind = "render" /\ t.resp.status = 404
                                          /\ t.resp.template = "404.html"

lookup_step(t, store) ==
    IF t.route = "post" THEN post_step(t, store)
    ELSE IF t.route = "category" THEN category_step(t, store)
    ELSE tag_step(t, store)

\* the thread after n steps of its lookup with no other request served
RECURSIVE AloneAfter(_, _)
AloneAfter(t, n) ==
    IF n = 0 \/ t.pc = "done" THEN t
    ELSE AloneAfter(lookup_step(t, PostsLiteral), n - 1)

IsLookup(t) == t.route \in {"post", "category", "tag"}

\* C8: with requests interleaved element by element, a lookup is at every
\* step where it would be had it run alone over the initial list, and ends
\* with the response it would give alone; a scan in progress never sees a
\* list other than the initial one; an index render hands over that list.
C8_InterleavedAsAlone ==
    \A w \in Threads :
        LET t == threads[w]
        IN  /\ (t.pc = "scan" /\ IsLookup(t)) =>
                /\ posts = PostsLiteral
                /\ t = AloneAfter(StartScan(t.route, t.slug, t.name), t.i)
            /\ (t.pc = "done" /\ IsLookup(t)) =>
                t = AloneAfter(StartScan(t.route, t.slug, t.name),
                               Len(PostsLiteral) + 1)
            /\ DoneOn(t, "index") => t.resp.posts = PostsLiteral

\* a scan that has consumed one element while another thread served a POST
\* with both fields
C8_Witness ==
    \E w1, w2 \in Threads :
        /\ threads[w1].pc = "scan"
        /\ threads[w1].i = 1
        /\ DoneOn(threads[w2], "admin_new_post")
        /\ threads[w2].method = "POST"
        /\ HasBothFields(threads[w2].form)

SameLookup(t1, t2) ==
    /\ t1.pc = "done" /\ t2.pc = "done"
    /\ IsLookup(t1)
    /\ t1.route = t2.route
    /\ t1.slug = t2.slug
    /\ t1.name = t2.name

\* C9: two answers to the same lookup are equal whenever each was given, and
\* a POST whose title derives the requested slug does not change whether that
\* slug is found.
C9_HistoryIndependent ==
    \A w1, w2 \in Threads :
        LET t1 == threads[w1]
            t2 == threads[w2]
        IN  /\ SameLookup(t1, t2) => t1.resp = t2.resp
            /\ ( /\ DoneOn(t1, "post")
                 /\ DoneOn(t2, "admin_new_post")
                 /\ t2.method = "POST"
                 /\ HasBothFields(t2.form)
                 /\ derive_slug(t2.form.title[1]) = t1.slug )
               => (t1.resp.status = 200 <=> SlugIndexes(PostsLiteral, t1.slug) # {})

\* a slug answered not found next to a served POST whose title derives it
C9_Witness ==
    \E w1, w2 \in Threads :
        /\ DoneOn(threads[w1], "post")
        /\ threads[w1].resp.status = 404
        /\ DoneOn(threads[w2], "admin_new_post")
        /\ threads[w2].method = "POST"
        /\ HasBothFields(threads[w2].form)
        /\ derive_slug(threads[w2].form.title[1]) = threads[w1].slug

\* C10: a POST to /admin/new_post with both fields is answered with a
\* redirect to /admin, and the slug derived from its title reaches no post of
\* the list; a GET is answered with the creation form.
C10_NewPostOutcome ==
    \A w \in Threads :
        LET t == threads[w]
        IN  DoneOn(t, "admin_new_post") =>
                /\ (t.method = "POST" /\ HasBothFields(t.form)) =>
                     /\ t.resp.kind = "redirect"
                     /\ t.resp.location = "/admin"
                     /\ \A k \in SlugIndexes(posts, derive_slug(t.form.title[1])) :
                          k <= Len(PostsLiteral) /\ posts[k] = PostsLiteral[k]
                /\ t.method = "GET" =>
                     /\ t.resp.kind = "render"
                     /\ t.resp.status = 200
                     /\ t.resp.template = "admin/new_post.html"

\* a POST with a title of capitals and spaces, whose slug is that of a post of
\* the list, answered with the redirect, next to a GET answered with the form
C10_Witness ==
    \E w1, w2 \in Threads :
        /\ DoneOn(threads[w1], "admin_new_post")
        /\ threads[w1].method = "POST"
        /\ threads[w1].form.title = <<TrenchTitle>>
        /\ threads[w1].form.content # <<>>
        /\ derive_slug(TrenchTitle) = TrenchSlug
        /\ threads[w1].resp = redirect("/admin")
        /\ DoneOn(threads[w2], "admin_new_post")
        /\ threads[w2].method = "GET"

====
